---- MODULE Spec2Model ----
(***************************************************************************)
(* A model of the il-salary-tracker ingestion core: the sliding-window      *)
(* RateLimiter and the paginated, retrying TheirStackAPIClient of           *)
(* src/api_client.py (time is the wall clock in whole seconds), the         *)
(* CompanyCache of src/company_cache.py and the DataValidator of            *)
(* src/data_utils.py.                                                       *)
(***************************************************************************)
EXTENDS Integers, Sequences, FiniteSets, TLC

VARIABLES
    limiter,        \* RateLimiter object: "none" | "ready" | "error" (a call raised)
    max_requests,   \* RateLimiter.max_requests
    time_window,    \* RateLimiter.time_window
    requests,       \* RateLimiter.requests, the deque of recorded timestamps
    now,            \* the wall clock, datetime.now()
    admitted,       \* clock times at which wait_if_needed calls returned
    recorded,       \* number of timestamps the limiter has appended so far
    client,         \* TheirStackAPIClient object: "none" | "ready" | "failed"
    sent,           \* number of HTTP requests the upstream has received
    pc,             \* fetch_all_jobs: "idle" | "loop" | "inflight" | "returned" | "raised"
    all_jobs,       \* fetch_all_jobs local all_jobs
    page,           \* fetch_all_jobs local page
    retry_count,    \* fetch_all_jobs local retry_count
    reqlog,         \* page index of every search request sent in the run
    resplog,        \* the upstream's answer to every search request of the run
    sleeps,         \* arguments of the time.sleep calls of the retry loop
    result,         \* what fetch_all_jobs handed to its caller
    cobj,           \* CompanyCache object: "none" | "ready" | "failed" (__init__ raised)
    cache,          \* CompanyCache.cache, the in-memory map key -> entry
    cache_duration, \* CompanyCache.cache_duration, in clock ticks
    cache_file,     \* the backing store: [state, data]
    cwritable,      \* whether the backing store can be opened for writing
    cnow,           \* the clock the cache reads, datetime.now(), in ticks
    clast,          \* the last CompanyCache call: its arguments, what it returned,
                    \* whether it wrote the backing store
    vin,            \* the batch first handed to validate_and_repair_data
    vruns,          \* what the calls of validate_and_repair_data returned, in order
    vwarned,        \* the number of invalid URLs each call logged (0: no warning)
    sapp,           \* JobScraperApp object: "none" | "ready"
    sjobs,          \* JobScraperApp.jobs
    spc,            \* scrape_jobs: "idle" | "loop"
    spage,          \* scrape_jobs local page
    smax_pages,     \* scrape_jobs argument max_pages
    sruns,          \* number of scrape_jobs calls made on the object
    scards,         \* the job cards of the page scraped last
    sresults,       \* the batches the scrape_jobs calls returned, in order
    tpc,            \* per thread: where it is in wait_if_needed
    tnow,           \* per thread: wait_if_needed local now
    twake,          \* per thread: the clock time at which its sleep ends
    tstamps,        \* every timestamp appended to the deque by a thread, in order
    upc,            \* per thread: where it is in a CompanyCache call
    usnap,          \* per thread: _save_cache local cache_to_save
    ucalls          \* whether some thread has called the cache

vars == <<limiter, max_requests, time_window, requests, now, admitted, recorded,
          client, sent, pc, all_jobs, page, retry_count, reqlog, resplog,
          sleeps, result,
          cobj, cache, cache_duration, cache_file, cwritable, cnow,
          clast, vin, vruns, vwarned,
          sapp, sjobs, spc, spage, smax_pages, sruns, scards, sresults,
          tpc, tnow, twake, tstamps, upc, usnap, ucalls>>

limiterVars == <<limiter, max_requests, time_window, requests, now, admitted, recorded>>
clientVars == <<client, sent, pc, all_jobs, page, retry_count, reqlog, resplog,
                sleeps, result>>
cacheVars == <<cobj, cache, cache_duration, cache_file, cwritable, cnow,
               clast>>
validatorVars == <<vin, vruns, vwarned>>
\* what the RateLimiter and the API client never touch
scraperVars == <<sapp, sjobs, spc, spage, smax_pages, sruns, scards, sresults>>
\* the components modelled after the validator
threadVars == <<tpc, tnow, twake, tstamps>>
cacheThreadVars == <<upc, usnap, ucalls>>
otherVars == <<scraperVars, threadVars, cacheThreadVars>>
apiFrame == <<cacheVars, validatorVars, otherVars>>

----------------------------------------------------------------------------
(* Bounds of the model *)

MaxParam == 2       \* RateLimiter parameters are drawn from -1..MaxParam
MaxClock == 5       \* callers arrive at clock times 0..MaxClock
MaxCalls == 4       \* wait_if_needed calls per limiter in the limiter specification
MaxPage == 2        \* the upstream holds full pages only below this page index
ShortPage == 40     \* size of a short (last) page
TicksPerDay == 2    \* resolution of the cache clock: ticks in one day
MaxDays == 1        \* cache_duration_days is drawn from 1..MaxDays
MaxCacheClock == 4  \* the cache clock runs over 0..MaxCacheClock
MaxTextLen == 3     \* company and title values have at most this many characters
MaxUrlLen == 2      \* url values have at most this many tokens
MaxRows == 2        \* a batch has at most this many rows
MaxRuns == 2        \* scrape_jobs is called at most this many times on one object
MaxPagesArg == 2    \* scrape_jobs is called with max_pages in 1..MaxPagesArg
MaxThreadCalls == 3 \* wait_if_needed calls made by the threads together
MaxThreadClock == 2 \* threads enter wait_if_needed at clock times 0..MaxThreadClock

(* Program constants *)

limit == 100                \* fetch_all_jobs: limit
max_retries == 3            \* fetch_all_jobs: max_retries
retry_delay == 5            \* fetch_all_jobs: retry_delay
ClientMaxRequests == 60     \* RateLimiter(max_requests=60, ...)
ClientTimeWindow == 60      \* RateLimiter(..., time_window=60)

MinPostDate == 0            \* 2025-01-01, the day dates are counted from

\* fetch_all_jobs has handed nothing to its caller (not called yet, or raised)
NoResult == [returned |-> FALSE, df |-> <<>>]
\* a DataFrame returned to the caller
Returned(df) == [returned |-> TRUE, df |-> df]
\* None / NaT; a known date d (days relative to 2025-01-01) is <<d>>
Null == <<>>
Date(d) == <<d>>

----------------------------------------------------------------------------
(* RateLimiter *)

\* line 31-32: while self.requests and self.requests[0] < now - window: popleft()
RECURSIVE Prune(_, _, _)
Prune(reqs, t, tw) ==
    IF reqs # <<>> /\ Head(reqs) < t - tw
    THEN Prune(Tail(reqs), t, tw)
    ELSE reqs

\* line 34
LimitReached(reqs, mr) == Len(reqs) >= mr

\* the wait computed from the newest timestamp
WaitTimeFromNewest(reqs, t, tw) == reqs[Len(reqs)] + tw - t

\* line 35: (self.requests[0] + timedelta(seconds=self.time_window) - now)
WaitTime(reqs, t, tw) == Head(reqs) + tw - t

\* line 40: the timestamp appended; t0 is the clock read at line 30, t1 the
\* clock when the append runs
Stamp(t0, t1) == t0

\* wait_if_needed as a function of the limiter state and the clock:
\* the deque after the call, the clock when the call returns, whether it raised
WaitIfNeeded(reqs, t, mr, tw) ==
    LET pruned == Prune(reqs, t, tw) IN
    IF LimitReached(pruned, mr)
    THEN IF pruned = <<>>
         THEN [requests |-> pruned, now |-> t, raised |-> TRUE]   \* requests[0]: IndexError
         ELSE LET w == WaitTime(pruned, t, tw)
                  t1 == IF w > 0 THEN t + w ELSE t
              IN [requests |-> Append(pruned, Stamp(t, t1)), now |-> t1, raised |-> FALSE]
    ELSE [requests |-> Append(pruned, Stamp(t, t)), now |-> t, raised |-> FALSE]

\* RateLimiter.__init__: stores whatever it is given
NewLimiter(mr, tw) ==
    /\ limiter = "none"
    /\ limiter' = "ready"
    /\ max_requests' = mr
    /\ time_window' = tw
    /\ requests' = <<>>
    /\ UNCHANGED <<now, admitted, recorded>>
    /\ UNCHANGED clientVars
    /\ UNCHANGED apiFrame

\* one wait_if_needed call by the single caller, sleep included
CallWaitIfNeeded ==
    /\ limiter = "ready"
    /\ Len(admitted) < MaxCalls
    /\ LET r == WaitIfNeeded(requests, now, max_requests, time_window) IN
       /\ requests' = r.requests
       /\ now' = r.now
       /\ limiter' = IF r.raised THEN "error" ELSE "ready"
       /\ admitted' = IF r.raised THEN admitted ELSE Append(admitted, r.now)
       /\ recorded' = IF r.raised THEN recorded ELSE recorded + 1
    /\ UNCHANGED <<max_requests, time_window>>
    /\ UNCHANGED clientVars
    /\ UNCHANGED apiFrame

\* time passes between two calls
Tick ==
    /\ limiter = "ready"
    /\ now < MaxClock
    /\ now' = now + 1
    /\ UNCHANGED <<limiter, max_requests, time_window, requests, admitted, recorded>>
    /\ UNCHANGED clientVars
    /\ UNCHANGED apiFrame

----------------------------------------------------------------------------
(* The upstream: what a search request for a page may be answered with *)

\* posted_at of the i-th job of a page, in days relative to 2025-01-01, or Null
PostedAt(dates, i) ==
    IF dates = "recent" THEN Date(i % 2)
    ELSE IF i % 3 = 0 THEN Date(0 - 1)
    ELSE IF i % 3 = 1 THEN Null
    ELSE Date(0)

\* the 'jobs' list of a successful answer: n raw jobs of page p
Jobs(p, n, dates) ==
    [i \in 1..n |-> [url |-> <<p, i>>, posted_at |-> PostedAt(dates, i)]]

PageSizes(p) == {0, ShortPage} \cup (IF p < MaxPage THEN {limit} ELSE {})

Answers(p) ==
    [kind : {"ok"}, n : PageSizes(p), dates : {"recent", "mixed"}]
        \cup {[kind |-> "5xx", n |-> 0, dates |-> "none"],
              [kind |-> "4xx", n |-> 0, dates |-> "none"]}

\* raise_for_status / transport errors: every one of them is a RequestException
IsRequestException(a) == a.kind # "ok"

----------------------------------------------------------------------------
(* TheirStackAPIClient *)

\* __init__ with test_connection: the limiter is created, one request is
\* posted directly, and a failed test raises out of the constructor
NewClient(ok) ==
    /\ client = "none"
    /\ limiter' = "ready"
    /\ max_requests' = ClientMaxRequests
    /\ time_window' = ClientTimeWindow
    /\ requests' = <<>>
    /\ sent' = sent + 1
    /\ client' = IF ok THEN "ready" ELSE "failed"
    /\ UNCHANGED <<now, admitted, recorded>>
    /\ UNCHANGED <<pc, all_jobs, page, retry_count, reqlog, resplog, sleeps, result>>
    /\ UNCHANGED apiFrame

\* fetch_all_jobs is entered: lines 178-183
StartFetch ==
    /\ client = "ready"
    /\ pc = "idle"
    /\ pc' = "loop"
    /\ all_jobs' = <<>>
    /\ page' = 0
    /\ retry_count' = 0
    /\ UNCHANGED limiterVars
    /\ UNCHANGED <<client, sent, reqlog, resplog, sleeps, result>>
    /\ UNCHANGED apiFrame

\* search_jobs up to the request: wait_if_needed, then requests.post
SendSearch ==
    /\ pc = "loop"
    /\ LET r == WaitIfNeeded(requests, now, max_requests, time_window) IN
       /\ requests' = r.requests
       /\ now' = r.now
       /\ admitted' = IF r.raised THEN admitted ELSE Append(admitted, r.now)
       /\ recorded' = IF r.raised THEN recorded ELSE recorded + 1
       /\ limiter' = IF r.raised THEN "error" ELSE limiter
       /\ pc' = IF r.raised THEN "raised" ELSE "inflight"
       /\ sent' = IF r.raised THEN sent ELSE sent + 1
       /\ reqlog' = IF r.raised THEN reqlog ELSE Append(reqlog, page)
    /\ UNCHANGED <<max_requests, time_window>>
    /\ UNCHANGED <<client, all_jobs, page, retry_count, resplog, sleeps, result>>
    /\ UNCHANGED apiFrame

\* lines 205-214
ProcessJob(job) == [url |-> job.url, post_date |-> job.posted_at]

\* a page's records put in front of the earlier pages
AppendJobsInFront(acc, jobs) == [i \in 1..Len(jobs) |-> ProcessJob(jobs[i])] \o acc

\* lines 204-215
AppendJobs(acc, jobs) == acc \o [i \in 1..Len(jobs) |-> ProcessJob(jobs[i])]

\* line 217
IsLastPage(n) == n < limit

\* the filter with a strict comparison
KeepsJobStrict(rec) == rec.post_date # Null /\ rec.post_date[1] > MinPostDate

\* line 245: df[df['post_date'] >= '2025-01-01']; NaT compares False
KeepsJob(rec) == rec.post_date # Null /\ rec.post_date[1] >= MinPostDate

FilterJobs(acc) == SelectSeq(acc, KeepsJob)

\* lines 237-248 after the loop broke: an empty list makes a DataFrame with no
\* columns, and df['post_date'] raises KeyError
Finish(acc) ==
    IF acc = <<>>
    THEN /\ pc' = "raised"
         /\ result' = NoResult
    ELSE /\ pc' = "returned"
         /\ result' = Returned(FilterJobs(acc))

\* a successful answer arrives: lines 156-159, 197-221, 237-248
SearchOk(a) ==
    /\ pc = "inflight"
    /\ ~IsRequestException(a)
    /\ resplog' = Append(resplog, a)
    /\ LET jobs == Jobs(page, a.n, a.dates) IN
       IF jobs = <<>>
       THEN /\ Finish(all_jobs)
            /\ UNCHANGED <<all_jobs, page>>
       ELSE /\ all_jobs' = AppendJobs(all_jobs, jobs)
            /\ IF IsLastPage(Len(jobs))
               THEN /\ Finish(AppendJobs(all_jobs, jobs))
                    /\ page' = page
               ELSE /\ pc' = "loop"
                    /\ page' = page + 1
                    /\ result' = result
    /\ UNCHANGED limiterVars
    /\ UNCHANGED <<client, sent, retry_count, reqlog, sleeps>>
    /\ UNCHANGED apiFrame

\* the retry budget tested one failure too late
RetriesExceededLate(rc) == rc > max_retries + 1

\* line 228
RetriesExceeded(rc) == rc > max_retries

\* line 232
BackoffTime(rc) == retry_delay * rc

\* the request fails: lines 161-174 re-raise, lines 223-235 count and retry
SearchFails(a) ==
    /\ pc = "inflight"
    /\ IsRequestException(a)
    /\ resplog' = Append(resplog, a)
    /\ retry_count' = retry_count + 1
    /\ IF RetriesExceeded(retry_count + 1)
       THEN /\ pc' = "raised"
            /\ UNCHANGED <<sleeps, now>>
       ELSE /\ pc' = "loop"
            /\ sleeps' = Append(sleeps, BackoffTime(retry_count + 1))
            /\ now' = now + BackoffTime(retry_count + 1)
    /\ UNCHANGED <<limiter, max_requests, time_window, requests, admitted, recorded>>
    /\ UNCHANGED <<client, sent, all_jobs, page, reqlog, result>>
    /\ UNCHANGED apiFrame

----------------------------------------------------------------------------
(* CompanyCache.  A datetime is a number of clock ticks; the backing store is
   [state |-> "missing" | "corrupt" | "ok", data |-> the JSON object]. *)

Keys == {"A", "B"}

\* company_data dictionaries handed to update_company_info; the second one
\* has a field of its own named 'timestamp'
Payloads == {[v |-> 1], [v |-> 2, timestamp |-> 0]}

EmptyMap == [k \in {} |-> 0]
MissingFile == [state |-> "missing", data |-> EmptyMap]
CorruptFile == [state |-> "corrupt", data |-> EmptyMap]

\* get_company_info's None
Absent == [absent |-> TRUE]

\* datetime.isoformat() with the fraction dropped
IsoFormatWholeDays(t) == [days |-> t \div TicksPerDay, frac |-> <<>>]

\* line 35, datetime.isoformat(): the whole part, then the fraction, which is
\* left out when it is zero
IsoFormat(t) ==
    [days |-> t \div TicksPerDay,
     frac |-> IF t % TicksPerDay = 0 THEN <<>> ELSE <<t % TicksPerDay>>]

\* line 22, datetime.fromisoformat()
FromIsoFormat(str) ==
    str.days * TicksPerDay + (IF str.frac = <<>> THEN 0 ELSE str.frac[1])

\* lines 52-55: {**company_data, 'timestamp': datetime.now()}
MakeEntry(company_data, t) ==
    [f \in DOMAIN company_data \cup {"timestamp"} |->
        IF f = "timestamp" THEN t ELSE company_data[f]]

\* lines 31-36: the object json.dump is given
CacheToSave(c) ==
    [k \in DOMAIN c |->
        [f \in DOMAIN c[k] |->
            IF f = "timestamp" THEN IsoFormat(c[k][f]) ELSE c[k][f]]]

\* lines 28-40, _save_cache: an unwritable store raises inside the try, which
\* logs and carries on
SaveCache(c, file, writable) ==
    IF writable THEN [state |-> "ok", data |-> CacheToSave(c)] ELSE file

\* lines 13-26, _load_cache; has_logger tells whether self.logger is set when a
\* load error is logged at line 25 (the constructor sets it after loading)
LoadCache(file, has_logger) ==
    IF file.state = "missing"
    THEN [raised |-> FALSE, cache |-> EmptyMap]
    ELSE IF file.state = "corrupt"
    THEN [raised |-> ~has_logger, cache |-> EmptyMap]
    ELSE [raised |-> FALSE,
          cache |-> [k \in DOMAIN file.data |->
                       [f \in DOMAIN file.data[k] |->
                           IF f = "timestamp"
                           THEN FromIsoFormat(file.data[k][f])
                           ELSE file.data[k][f]]]]

\* the entry is expired when its age has passed the duration
IsFreshInclusive(entry, t, duration) == t - entry.timestamp <= duration

\* lines 46, 62: datetime.now() - company_data['timestamp'] < self.cache_duration
IsFresh(entry, t, duration) == t - entry.timestamp < duration

\* expiry tested with a strict comparison
ExpiredKeysStrict(c, t, duration) ==
    {k \in DOMAIN c : t - c[k].timestamp > duration}

\* lines 72-75
ExpiredKeys(c, t, duration) ==
    {k \in DOMAIN c : t - c[k].timestamp >= duration}

\* what a call leaves in clast
\* seq alternates, so that two equal calls in a row are two steps
Call(op, key, arg, ret, wrote) ==
    [op |-> op, key |-> key, arg |-> arg, ret |-> ret, wrote |-> wrote,
     seq |-> 1 - clast.seq]

NoKey == "-"
NoArg == <<>>

\* lines 7-11, __init__: the cache is loaded before self.logger is set
NewCache(days) ==
    /\ cobj \in {"none", "ready"}
    /\ cache_duration' = days * TicksPerDay
    /\ LET r == LoadCache(cache_file, FALSE) IN
       /\ cobj' = IF r.raised THEN "failed" ELSE "ready"
       /\ cache' = r.cache
       /\ clast' = Call("new", NoKey, NoArg, r.raised, FALSE)
    /\ UNCHANGED <<cache_file, cwritable, cnow>>
    /\ UNCHANGED <<limiterVars, clientVars, validatorVars, otherVars>>

\* lines 42-48
GetCompanyInfo(company_id) ==
    /\ cobj = "ready"
    /\ clast' = Call("get", company_id, NoArg,
                     IF company_id \in DOMAIN cache
                        /\ IsFresh(cache[company_id], cnow, cache_duration)
                     THEN cache[company_id]
                     ELSE Absent,
                     FALSE)
    /\ UNCHANGED <<cobj, cache, cache_duration, cache_file, cwritable, cnow>>
    /\ UNCHANGED <<limiterVars, clientVars, validatorVars, otherVars>>

\* lines 50-56
UpdateCompanyInfo(company_id, company_data) ==
    /\ cobj = "ready"
    /\ LET c == [k \in DOMAIN cache \cup {company_id} |->
                    IF k = company_id THEN MakeEntry(company_data, cnow)
                    ELSE cache[k]]
       IN /\ cache' = c
          /\ cache_file' = SaveCache(c, cache_file, cwritable)
    /\ clast' = Call("update", company_id, company_data, <<>>, cwritable)
    /\ UNCHANGED <<cobj, cache_duration, cwritable, cnow>>
    /\ UNCHANGED <<limiterVars, clientVars, validatorVars, otherVars>>

\* lines 69-80
CleanupExpired ==
    /\ cobj = "ready"
    /\ LET expired_keys == ExpiredKeys(cache, cnow, cache_duration)
           c == [k \in DOMAIN cache \ expired_keys |-> cache[k]]
       IN /\ cache' = c
          /\ cache_file' = IF expired_keys # {}
                           THEN SaveCache(c, cache_file, cwritable)
                           ELSE cache_file
          /\ clast' = Call("cleanup", NoKey, NoArg, Cardinality(expired_keys),
                           expired_keys # {} /\ cwritable)
    /\ UNCHANGED <<cobj, cache_duration, cwritable, cnow>>
    /\ UNCHANGED <<limiterVars, clientVars, validatorVars, otherVars>>

\* time passes between two calls
CacheTick ==
    /\ cnow < MaxCacheClock
    /\ cnow' = cnow + 1
    /\ UNCHANGED <<cobj, cache, cache_duration, cache_file, cwritable, clast>>
    /\ UNCHANGED <<limiterVars, clientVars, validatorVars, otherVars>>

----------------------------------------------------------------------------

(* DataValidator (src/data_utils.py): the values of a batch *)

REQUIRED_COLUMNS ==
    {"date_found", "post_date", "platform", "company", "title", "url", "location"}

\* None / NaN / NaT
NullCell == [kind |-> "null"]
\* a number
NumCell == [kind |-> "num"]
\* a string of characters (url strings: of tokens)
Str(text) == [kind |-> "str", text |-> text]
\* a string in a date column, by its lexical shape and its two numeric
\* fields other than the year, in the order they are written
DateStr(shape, a, b) == [kind |-> "str", shape |-> shape, a |-> a, b |-> b]
\* a datetime of the year 2025
Date2025(month, day) == [kind |-> "date", month |-> month, day |-> day]

IsNa(cell) == cell.kind = "null"

\* all sequences over S of length at most n
RECURSIVE SeqsUpTo(_, _)
SeqsUpTo(S, n) ==
    IF n = 0 THEN {<<>>}
    ELSE LET shorter == SeqsUpTo(S, n - 1)
         IN shorter \cup {Append(t, c) : t \in shorter, c \in S}

Chars == {"a", " ", "&"}
IsSpace(c) == c = " "
\* [\w\s-]
IsWordSpaceOrHyphen(c) == c \in {"a", " ", "-"}

\* str.strip()
RECURSIVE LStrip(_)
LStrip(s) == IF s # <<>> /\ IsSpace(Head(s)) THEN LStrip(Tail(s)) ELSE s
RECURSIVE RStrip(_)
RStrip(s) ==
    IF s # <<>> /\ IsSpace(s[Len(s)]) THEN RStrip(SubSeq(s, 1, Len(s) - 1)) ELSE s
Strip(s) == RStrip(LStrip(s))

\* str.replace(r'\s+', ' ')
RECURSIVE CollapseSpaces(_)
CollapseSpaces(s) ==
    IF s = <<>> THEN <<>>
    ELSE IF IsSpace(Head(s))
         THEN <<" ">> \o CollapseSpaces(LStrip(s))
         ELSE <<Head(s)>> \o CollapseSpaces(Tail(s))

\* str.replace(r'[^\w\s-]', '')
RemoveSpecial(s) == SelectSeq(s, IsWordSpaceOrHyphen)

\* a Series.str method: applies f's result to strings, gives NaN elsewhere
StrMethod(cell, value) == IF cell.kind = "str" THEN Str(value) ELSE NullCell

(* DataValidator: dates *)

\* %m and %d of strptime
IsMonth(n) == n \in 1..12
IsDay(n) == n \in 1..31

\* the lexical shape each strptime format accepts: "n" a one- or two-digit
\* number, "Y" the year 2025, "b" / "B" an abbreviated / a full month name
DATE_FORMATS ==
    << "%Y-%m-%d", "%m/%d/%Y", "%d-%m-%Y", "%Y/%m/%d", "%b %d, %Y", "%B %d, %Y" >>

FormatShape(date_format) ==
    CASE date_format = "%Y-%m-%d" -> "Y-n-n"
      [] date_format = "%m/%d/%Y" -> "n/n/Y"
      [] date_format = "%d-%m-%Y" -> "n-n-Y"
      [] date_format = "%Y/%m/%d" -> "Y/n/n"
      [] date_format = "%b %d, %Y" -> "b n, Y"
      [] date_format = "%B %d, %Y" -> "B n, Y"

\* datetime.strptime(str(date_str), date_format); NullCell for ValueError
Strptime(date_str, date_format) ==
    IF date_str.shape # FormatShape(date_format) THEN NullCell
    ELSE IF date_format = "%d-%m-%Y"
         THEN IF IsDay(date_str.a) /\ IsMonth(date_str.b)
              THEN Date2025(date_str.b, date_str.a) ELSE NullCell
         ELSE IF IsMonth(date_str.a) /\ IsDay(date_str.b)
              THEN Date2025(date_str.a, date_str.b) ELSE NullCell

\* the date a relative expression ("yesterday") stands for
Yesterday == Date2025(11, 1)

\* dateparser.parse(str(date_str)); NullCell for None
DateparserParse(date_str) ==
    CASE date_str.shape \in {"Y-n-n", "Y/n/n", "b n, Y", "B n, Y"} ->
            IF IsMonth(date_str.a) /\ IsDay(date_str.b)
            THEN Date2025(date_str.a, date_str.b) ELSE NullCell
      [] date_str.shape \in {"n/n/Y", "n-n-Y"} ->
            IF IsMonth(date_str.a) /\ IsDay(date_str.b)
            THEN Date2025(date_str.a, date_str.b)
            ELSE IF IsMonth(date_str.b) /\ IsDay(date_str.a)
                 THEN Date2025(date_str.b, date_str.a) ELSE NullCell
      [] date_str.shape = "nth of B Y" ->
            IF IsMonth(date_str.b) /\ IsDay(date_str.a)
            THEN Date2025(date_str.b, date_str.a) ELSE NullCell
      [] date_str.shape = "relative" -> Yesterday
      [] OTHER -> NullCell

\* lines 182-186: the first format that parses
RECURSIVE TryFormats(_, _)
TryFormats(date_str, formats) ==
    IF formats = <<>> THEN NullCell
    ELSE LET parsed == Strptime(date_str, Head(formats))
         IN IF parsed # NullCell THEN parsed
            ELSE TryFormats(date_str, Tail(formats))

\* lines 176-196
ParseDateWithFormats(date_str) ==
    IF IsNa(date_str) THEN NullCell
    ELSE LET strict == TryFormats(date_str, DATE_FORMATS)
         IN IF strict # NullCell THEN strict ELSE DateparserParse(date_str)

\* a conversion that keeps the values it cannot parse (errors='ignore')
ToDatetimeKeep(cell) ==
    IF cell.kind = "str" /\ cell.shape # "relative"
                         /\ DateparserParse(cell) # NullCell
    THEN DateparserParse(cell)
    ELSE cell

\* pd.to_datetime(df[date_column], errors='coerce'), cell by cell: month
\* first, day first only where the first number cannot be a month
ToDatetimeCoerce(cell) ==
    CASE cell.kind = "date" -> cell
      [] cell.kind = "null" -> NullCell
      [] cell.kind = "str" ->
            CASE cell.shape \in {"Y-n-n", "Y/n/n", "b n, Y", "B n, Y"} ->
                    IF IsMonth(cell.a) /\ IsDay(cell.b)
                    THEN Date2025(cell.a, cell.b) ELSE NullCell
              [] cell.shape \in {"n/n/Y", "n-n-Y"} ->
                    IF IsMonth(cell.a) /\ IsDay(cell.b)
                    THEN Date2025(cell.a, cell.b)
                    ELSE IF IsMonth(cell.b) /\ IsDay(cell.a)
                         THEN Date2025(cell.b, cell.a) ELSE NullCell
              [] cell.shape = "nth of B Y" ->
                    IF IsMonth(cell.b) /\ IsDay(cell.a)
                    THEN Date2025(cell.b, cell.a) ELSE NullCell
              [] OTHER -> NullCell

\* str(df.loc[idx, date_column]) of a cell of the converted column
StrOf(cell) == IF IsNa(cell) THEN DateStr("NaT", 0, 0) ELSE cell

\* lines 205-218, for one cell
RepairDateCell(cell) ==
    LET converted == ToDatetimeCoerce(cell)
    IN IF IsNa(converted)
       THEN LET original_value == StrOf(converted)
                parsed_date == ParseDateWithFormats(original_value)
            IN IF parsed_date # NullCell THEN parsed_date ELSE converted
       ELSE converted

(* DataValidator: the repair steps; a batch is [cols, rows], a row maps
   each column of cols to a cell *)

\* df[col] = values
SetColumn(df, col, values) ==
    [df EXCEPT !.rows = [i \in 1..Len(df.rows) |->
                            [df.rows[i] EXCEPT ![col] = values[i]]]]

\* lines 153-166
ValidateCsvStructure(df) ==
    LET missing_columns == REQUIRED_COLUMNS \ df.cols
    IN [is_valid |-> missing_columns = {}, missing_columns |-> missing_columns]

\* lines 168-174
RepairMissingColumns(df) ==
    [cols |-> df.cols \cup REQUIRED_COLUMNS,
     rows |-> [i \in 1..Len(df.rows) |->
                  [c \in df.cols \cup REQUIRED_COLUMNS |->
                      IF c \in df.cols THEN df.rows[i][c] ELSE NullCell]]]

\* lines 200-218, for one column
RepairDateColumn(df, date_column) ==
    IF date_column \in df.cols
    THEN SetColumn(df, date_column,
                   [i \in 1..Len(df.rows) |-> RepairDateCell(df.rows[i][date_column])])
    ELSE df

\* lines 198-220
RepairDates(df) == RepairDateColumn(RepairDateColumn(df, "date_found"), "post_date")

\* the .str accessor raises AttributeError on a column of numbers: one that
\* holds a number and no string
StrAccessorRaises(df, col) ==
    /\ \E i \in 1..Len(df.rows) : df.rows[i][col].kind = "num"
    /\ \A i \in 1..Len(df.rows) : df.rows[i][col].kind # "str"

\* what a step leaves behind: the batch, and whether the step threw
Done(df) == [df |-> df, threw |-> FALSE]
Threw(df) == [df |-> df, threw |-> TRUE]

UrlTokens == {"https://", "http://", "x", " "}
\* str.contains('^https?://', na=False)
StartsWithScheme(cell) ==
    cell.kind = "str" /\ cell.text # <<>> /\ cell.text[1] \in {"https://", "http://"}

StripCell(cell) == StrMethod(cell, IF cell.kind = "str" THEN Strip(cell.text) ELSE <<>>)
\* 'https://' put in front of every string
PrependSchemeAlways(cell) ==
    IF cell.kind = "str" THEN Str(<<"https://">> \o cell.text) ELSE NullCell

\* line 231: 'https://' + url where the mask holds; NaN stays NaN
PrependScheme(cell) ==
    IF StartsWithScheme(cell) THEN cell
    ELSE IF cell.kind = "str" THEN Str(<<"https://">> \o cell.text)
    ELSE NullCell

\* a validation that keeps only the rows whose url is a string
ValidateUrlsDropNull(df) ==
    IF "url" \notin df.cols THEN Done(df)
    ELSE IF StrAccessorRaises(df, "url") THEN Threw(df)
    ELSE Done([df EXCEPT !.rows =
                  SelectSeq([i \in 1..Len(df.rows) |->
                                [df.rows[i] EXCEPT !["url"] = PrependScheme(StripCell(@))]],
                            LAMBDA row : row["url"].kind = "str")])

\* lines 222-238
ValidateUrls(df) ==
    IF "url" \notin df.cols THEN Done(df)
    ELSE IF StrAccessorRaises(df, "url") THEN Threw(df)
    ELSE Done(SetColumn(df, "url",
                        [i \in 1..Len(df.rows) |->
                            PrependScheme(StripCell(df.rows[i]["url"]))]))

\* the characters of a url token
TokenChars(token) ==
    CASE token = "https://" -> <<"h", "t", "t", "p", "s", ":", "/", "/">>
      [] token = "http://" -> <<"h", "t", "t", "p", ":", "/", "/">>
      [] OTHER -> <<token>>

RECURSIVE UrlChars(_)
UrlChars(text) ==
    IF text = <<>> THEN <<>> ELSE TokenChars(Head(text)) \o UrlChars(Tail(text))

\* Series.str.match(r'^https?://[^\s/$.?#].[^\s]*$', na=False) on one cell
MatchesUrlPattern(cell) ==
    /\ StartsWithScheme(cell)
    /\ LET chars == UrlChars(cell.text)
           scheme == Len(TokenChars(cell.text[1]))
           rest == SubSeq(chars, scheme + 1, Len(chars))
       IN /\ Len(rest) >= 2
          /\ rest[1] \notin {" ", "/", "$", ".", "?", "#"}
          /\ \A j \in 3..Len(rest) : ~IsSpace(rest[j])

\* lines 234-236: the rows reported as invalid URLs
InvalidUrls(df) == {i \in 1..Len(df.rows) : ~MatchesUrlPattern(df.rows[i]["url"])}

\* lines 248-252 on one cell
CollapseCell(cell) ==
    StrMethod(cell, IF cell.kind = "str" THEN CollapseSpaces(cell.text) ELSE <<>>)
RemoveSpecialCell(cell) ==
    StrMethod(cell, IF cell.kind = "str" THEN RemoveSpecial(cell.text) ELSE <<>>)
CleanCell(cell) == RemoveSpecialCell(CollapseCell(StripCell(cell)))

\* lines 244-252, for one column, after the columns before it
CleanTextColumn(step, column) ==
    IF step.threw \/ column \notin step.df.cols THEN step
    ELSE IF StrAccessorRaises(step.df, column) THEN Threw(step.df)
    ELSE Done(SetColumn(step.df, column,
                        [i \in 1..Len(step.df.rows) |-> CleanCell(step.df.rows[i][column])]))

\* lines 241-254
CleanTextFields(df) == CleanTextColumn(CleanTextColumn(Done(df), "company"), "title")

\* an except clause that lets the exception go on: the call ends in a raise
ExceptReraises(df, step) == [df |-> df, ok |-> FALSE, raised |-> TRUE, threw |-> step]

\* lines 283-285
Except(df, step) == [df |-> df, ok |-> FALSE, raised |-> FALSE, threw |-> step]

\* lines 256-285
ValidateAndRepairData(df) ==
    LET structure == ValidateCsvStructure(df)
        df1 == IF ~structure.is_valid THEN RepairMissingColumns(df) ELSE df
        df2 == RepairDates(df1)
        urls == ValidateUrls(df2)
        texts == CleanTextFields(urls.df)
    IN IF urls.threw THEN Except(urls.df, "validate_urls")
       ELSE IF texts.threw THEN Except(texts.df, "clean_text_fields")
       ELSE [df |-> texts.df, ok |-> TRUE, raised |-> FALSE, threw |-> "none"]

\* line 236: the count in the warning validate_urls logs during
\* validate_and_repair_data(df); 0 when it logs none
LoggedInvalidUrls(df) ==
    LET structure == ValidateCsvStructure(df)
        df1 == IF ~structure.is_valid THEN RepairMissingColumns(df) ELSE df
        urls == ValidateUrls(RepairDates(df1))
    IN IF urls.threw \/ "url" \notin urls.df.cols THEN 0
       ELSE Cardinality(InvalidUrls(urls.df))

(* DataValidator: the batches it is called with *)

DateStrings ==
    {DateStr(shape, a, b) : shape \in {"n/n/Y", "n-n-Y"}, a \in {1, 3, 13}, b \in {1, 3, 13}}
    \cup {DateStr(shape, a, b) :
              shape \in {"Y-n-n", "Y/n/n", "b n, Y", "B n, Y"}, a \in {1, 3}, b \in {1, 13}}
    \cup {DateStr("nth of B Y", a, b) : a \in {1, 13}, b \in {1, 3}}
    \cup {DateStr("relative", 0, 0), DateStr("words", 0, 0)}

DateCells == DateStrings \cup {NullCell, Date2025(3, 1)}
TextCells == {Str(t) : t \in SeqsUpTo(Chars, MaxTextLen)} \cup {NullCell, NumCell}
UrlCells == {Str(t) : t \in SeqsUpTo(UrlTokens, MaxUrlLen)} \cup {NullCell, NumCell}

CellsOf(col) ==
    CASE col \in {"date_found", "post_date"} -> DateCells
      [] col \in {"company", "title"} -> TextCells
      [] col = "url" -> UrlCells

\* a row that needs no repair
BaseRow ==
    [c \in REQUIRED_COLUMNS |->
        CASE c = "date_found" -> Date2025(3, 1)
          [] c = "post_date" -> DateStr("Y-n-n", 3, 1)
          [] c = "url" -> Str(<<"https://", "x">>)
          [] OTHER -> Str(<<"a">>)]

\* a row whose url, company and title are numbers; a row of nulls
NumRow ==
    [c \in REQUIRED_COLUMNS |->
        IF c \in {"url", "company", "title"} THEN NumCell ELSE BaseRow[c]]
NullRow == [c \in REQUIRED_COLUMNS |-> NullCell]

\* the first row of a batch differs from BaseRow in one cell at most, the
\* rows after it are BaseRow, NumRow or NullRow
FirstRows ==
    UNION {{[BaseRow EXCEPT ![c] = v] : v \in CellsOf(c)} :
              c \in {"date_found", "post_date", "url", "company", "title"}}
FillerRows == {BaseRow, NumRow, NullRow}

ColumnSets ==
    {REQUIRED_COLUMNS \ m : m \in {{}, {"location"}, {"url"}, {"post_date", "company"}}}

Batches ==
    {[cols |-> cols, rows |-> [i \in 1..Len(rows) |-> [c \in cols |-> rows[i][c]]]] :
        cols \in ColumnSets,
        rows \in {<<>>} \cup {<<r>> \o f : r \in FirstRows,
                                          f \in SeqsUpTo(FillerRows, MaxRows - 1)}}

\* validate_and_repair_data(batch), the first call
Validate(batch) ==
    /\ vruns = <<>>
    /\ vin' = batch
    /\ vruns' = <<ValidateAndRepairData(batch)>>
    /\ vwarned' = <<LoggedInvalidUrls(batch)>>
    /\ UNCHANGED <<limiterVars, clientVars, cacheVars, otherVars>>

\* validate_and_repair_data called again, with the batch the first call returned
Revalidate ==
    /\ Len(vruns) = 1
    /\ ~vruns[1].raised
    /\ vruns' = Append(vruns, ValidateAndRepairData(vruns[1].df))
    /\ vwarned' = Append(vwarned, LoggedInvalidUrls(vruns[1].df))
    /\ UNCHANGED <<vin, limiterVars, clientVars, cacheVars, otherVars>>

(* JobScraperApp (src/main.py): scrape_jobs and the pages it reads.  A job
   card is named by the elements it holds. *)

\* a card with every element; one without title and company elements; one
\* without a date element; one whose link element has no href attribute
CardKinds == {"full", "partial", "nodate", "nohref"}

\* what requests.get answers for a page: a sequence of job cards, or an error
RequestError == <<"error">>
PageContents ==
    {<<>>, <<"full", "nodate">>, <<"nohref", "partial">>, <<"partial">>, RequestError}

\* extract_job_details returned None
NoDetails == [none |-> TRUE]

\* lines 67-93; href names the card: <<run, page, position>>
ExtractJobDetails(job_card, href) ==
    IF job_card = "nohref" THEN NoDetails       \* link_elem['href']: KeyError, caught
    ELSE [title |-> IF job_card = "partial" THEN "Unknown Title" ELSE "title",
          company |-> IF job_card = "partial" THEN "Unknown Company" ELSE "company",
          post_date |-> IF job_card = "nodate" THEN Null ELSE Date(MinPostDate + 1),
          url |-> href,
          platform |-> "LinkedIn"]

\* line 108: the record is kept
IsAppended(job_details) ==
    /\ job_details # NoDetails
    /\ job_details.post_date # Null
    /\ job_details.post_date[1] >= MinPostDate

\* lines 106-109: self.jobs after the cards from position i on
RECURSIVE AppendCards(_, _, _, _, _)
AppendCards(jobs, cards, i, run, pg) ==
    IF i > Len(cards) THEN jobs
    ELSE LET job_details == ExtractJobDetails(cards[i], <<run, pg, i>>)
         IN AppendCards(IF IsAppended(job_details) THEN Append(jobs, job_details) ELSE jobs,
                        cards, i + 1, run, pg)

\* lines 95-115: self.jobs after the page, and has_jobs
ScrapeJobPage(jobs, content, run, pg) ==
    IF content = RequestError
    THEN [jobs |-> jobs, has_jobs |-> FALSE]
    ELSE [jobs |-> AppendCards(jobs, content, 1, run, pg), has_jobs |-> Len(content) > 0]

\* lines 130-132: pd.DataFrame(self.jobs), filtered
ScrapedFrame(jobs) == SelectSeq(jobs, KeepsJob)

\* JobScraperApp.__init__
NewApp ==
    /\ sapp = "none"
    /\ sapp' = "ready"
    /\ sjobs' = <<>>
    /\ UNCHANGED <<spc, spage, smax_pages, sruns, scards, sresults>>
    /\ UNCHANGED <<limiterVars, clientVars, cacheVars, validatorVars, threadVars,
                   cacheThreadVars>>

\* scrape_jobs(max_pages) is entered: lines 117-120
StartScrape(max_pages) ==
    /\ sapp = "ready"
    /\ spc = "idle"
    /\ sruns < MaxRuns
    /\ sruns' = sruns + 1
    /\ spc' = "loop"
    /\ spage' = 1
    /\ smax_pages' = max_pages
    /\ UNCHANGED <<sapp, sjobs, scards, sresults>>
    /\ UNCHANGED <<limiterVars, clientVars, cacheVars, validatorVars, threadVars,
                   cacheThreadVars>>

\* one turn of the loop of scrape_jobs, lines 122-128, and, when the loop
\* ends with it, lines 130-135
ScrapePage(content) ==
    /\ spc = "loop"
    /\ LET r == ScrapeJobPage(sjobs, content, sruns, spage)
           ends == ~r.has_jobs \/ spage + 1 > smax_pages
       IN /\ sjobs' = r.jobs
          /\ scards' = IF content = RequestError THEN <<>> ELSE content
          /\ spage' = IF r.has_jobs THEN spage + 1 ELSE spage
          /\ spc' = IF ends THEN "idle" ELSE "loop"
          /\ sresults' = IF ends THEN Append(sresults, ScrapedFrame(r.jobs)) ELSE sresults
    /\ UNCHANGED <<sapp, smax_pages, sruns>>
    /\ UNCHANGED <<limiterVars, clientVars, cacheVars, validatorVars, threadVars,
                   cacheThreadVars>>

(* RateLimiter.wait_if_needed called by several threads on one limiter; the
   code takes no lock, so the threads interleave between its statements *)

Threads == {1, 2}

\* the limiter state and the client state a thread step leaves alone
ThreadFrame == <<limiter, max_requests, time_window, clientVars, cacheVars,
                 validatorVars, scraperVars, cacheThreadVars>>

\* line 30: now = datetime.now()
ReadClock(t) ==
    /\ limiter = "ready"
    /\ tpc[t] = "idle"
    /\ Len(tstamps) + Cardinality({u \in Threads : tpc[u] # "idle"}) < MaxThreadCalls
    /\ tnow' = [tnow EXCEPT ![t] = now]
    /\ tpc' = [tpc EXCEPT ![t] = "prune"]
    /\ UNCHANGED <<requests, now, admitted, recorded, twake, tstamps>>
    /\ UNCHANGED ThreadFrame

\* line 31: the test of the while loop
PruneTest(t) ==
    /\ tpc[t] = "prune"
    /\ tpc' = [tpc EXCEPT ![t] =
                  IF requests # <<>> /\ Head(requests) < tnow[t] - time_window
                  THEN "pop" ELSE "check"]
    /\ UNCHANGED <<requests, now, admitted, recorded, tnow, twake, tstamps>>
    /\ UNCHANGED ThreadFrame

\* line 32: self.requests.popleft(); IndexError on an empty deque
PopLeft(t) ==
    /\ tpc[t] = "pop"
    /\ IF requests = <<>>
       THEN /\ tpc' = [tpc EXCEPT ![t] = "raised"]
            /\ UNCHANGED requests
       ELSE /\ tpc' = [tpc EXCEPT ![t] = "prune"]
            /\ requests' = Tail(requests)
    /\ UNCHANGED <<now, admitted, recorded, tnow, twake, tstamps>>
    /\ UNCHANGED ThreadFrame

\* lines 34-36: the count check and the wait computed from requests[0]
CountCheck(t) ==
    /\ tpc[t] = "check"
    /\ IF ~LimitReached(requests, max_requests)
       THEN /\ tpc' = [tpc EXCEPT ![t] = "append"]
            /\ UNCHANGED twake
       ELSE IF requests = <<>>
       THEN /\ tpc' = [tpc EXCEPT ![t] = "raised"]
            /\ UNCHANGED twake
       ELSE LET wait_time == WaitTime(requests, tnow[t], time_window)
            IN IF wait_time > 0
               THEN /\ tpc' = [tpc EXCEPT ![t] = "sleep"]
                    /\ twake' = [twake EXCEPT ![t] = now + wait_time]
               ELSE /\ tpc' = [tpc EXCEPT ![t] = "append"]
                    /\ UNCHANGED twake
    /\ UNCHANGED <<requests, now, admitted, recorded, tnow, tstamps>>
    /\ UNCHANGED ThreadFrame

\* line 38: time.sleep(wait_time) returns
Wake(t) ==
    /\ tpc[t] = "sleep"
    /\ now >= twake[t]
    /\ tpc' = [tpc EXCEPT ![t] = "append"]
    /\ UNCHANGED <<requests, now, admitted, recorded, tnow, twake, tstamps>>
    /\ UNCHANGED ThreadFrame

\* line 40: self.requests.append(now); the call returns, admitted
AppendStamp(t) ==
    /\ tpc[t] = "append"
    /\ requests' = Append(requests, Stamp(tnow[t], now))
    /\ tstamps' = Append(tstamps, Stamp(tnow[t], now))
    /\ admitted' = Append(admitted, now)
    /\ recorded' = recorded + 1
    /\ tpc' = [tpc EXCEPT ![t] = "idle"]
    /\ tnow' = [tnow EXCEPT ![t] = 0]
    /\ twake' = [twake EXCEPT ![t] = 0]
    /\ UNCHANGED now
    /\ UNCHANGED ThreadFrame

\* the clock advances: while callers may still arrive, or towards the end of
\* a sleep
ThreadTick ==
    /\ limiter = "ready"
    /\ \/ now < MaxThreadClock
       \/ \E t \in Threads : tpc[t] = "sleep" /\ now < twake[t]
    /\ now' = now + 1
    /\ UNCHANGED <<requests, admitted, recorded, threadVars>>
    /\ UNCHANGED ThreadFrame

(* CompanyCache called by several threads; the code takes no lock, so the
   threads interleave between the in-memory write, the building of
   cache_to_save and the writing of the file *)

\* what a cache thread step leaves alone
CacheThreadFrame == <<cobj, cache_duration, cwritable, cnow, clast, limiterVars,
                      clientVars, validatorVars, scraperVars, threadVars>>

\* lines 52-55: update_company_info writes the entry
ThreadUpdate(t, company_id, company_data) ==
    /\ cobj = "ready"
    /\ upc[t] = "idle"
    /\ cache' = [k \in DOMAIN cache \cup {company_id} |->
                    IF k = company_id THEN MakeEntry(company_data, cnow) ELSE cache[k]]
    /\ upc' = [upc EXCEPT ![t] = "snapshot"]
    /\ ucalls' = TRUE
    /\ UNCHANGED <<cache_file, usnap>>
    /\ UNCHANGED CacheThreadFrame

\* lines 71-78: cleanup_expired deletes the expired entries
ThreadCleanup(t) ==
    /\ cobj = "ready"
    /\ upc[t] = "idle"
    /\ LET expired_keys == ExpiredKeys(cache, cnow, cache_duration)
       IN /\ cache' = [k \in DOMAIN cache \ expired_keys |-> cache[k]]
          /\ upc' = [upc EXCEPT ![t] = IF expired_keys # {} THEN "snapshot" ELSE "idle"]
    /\ ucalls' = TRUE
    /\ UNCHANGED <<cache_file, usnap>>
    /\ UNCHANGED CacheThreadFrame

\* lines 31-36: _save_cache builds cache_to_save
ThreadSnapshot(t) ==
    /\ upc[t] = "snapshot"
    /\ usnap' = [usnap EXCEPT ![t] = CacheToSave(cache)]
    /\ upc' = [upc EXCEPT ![t] = "write"]
    /\ UNCHANGED <<cache, cache_file, ucalls>>
    /\ UNCHANGED CacheThreadFrame

\* lines 37-38: _save_cache writes the file; the call returns
ThreadFileWrite(t) ==
    /\ upc[t] = "write"
    /\ cache_file' = IF cwritable THEN [state |-> "ok", data |-> usnap[t]] ELSE cache_file
    /\ usnap' = [usnap EXCEPT ![t] = EmptyMap]
    /\ upc' = [upc EXCEPT ![t] = "idle"]
    /\ UNCHANGED <<cache, ucalls>>
    /\ UNCHANGED CacheThreadFrame

\* time passes
CacheThreadTick ==
    /\ cnow < MaxCacheClock
    /\ cnow' = cnow + 1
    /\ UNCHANGED <<cobj, cache, cache_duration, cache_file, cwritable, clast>>
    /\ UNCHANGED <<limiterVars, clientVars, validatorVars, otherVars>>

----------------------------------------------------------------------------

\* no CompanyCache yet, over a store that does not exist
CacheIdle ==
    /\ cobj = "none"
    /\ cache = EmptyMap
    /\ cache_duration = 0
    /\ cnow = 0
    /\ clast = [op |-> "none", key |-> NoKey, arg |-> NoArg, ret |-> <<>>,
                wrote |-> FALSE, seq |-> 0]

ApiIdle ==
    /\ limiter = "none"
    /\ max_requests = 0
    /\ time_window = 0
    /\ requests = <<>>
    /\ now = 0
    /\ admitted = <<>>
    /\ recorded = 0
    /\ client = "none"
    /\ sent = 0
    /\ pc = "idle"
    /\ all_jobs = <<>>
    /\ page = 0
    /\ retry_count = 0
    /\ reqlog = <<>>
    /\ resplog = <<>>
    /\ sleeps = <<>>
    /\ result = NoResult

\* validate_and_repair_data not called yet
ValidatorIdle ==
    /\ vin = <<>>
    /\ vruns = <<>>
    /\ vwarned = <<>>

\* no JobScraperApp yet
ScraperIdle ==
    /\ sapp = "none"
    /\ sjobs = <<>>
    /\ spc = "idle"
    /\ spage = 0
    /\ smax_pages = 0
    /\ sruns = 0
    /\ scards = <<>>
    /\ sresults = <<>>

\* no thread is inside wait_if_needed
ThreadsIdle ==
    /\ tpc = [t \in Threads |-> "idle"]
    /\ tnow = [t \in Threads |-> 0]
    /\ twake = [t \in Threads |-> 0]
    /\ tstamps = <<>>

\* no thread is inside a CompanyCache call
CacheThreadsIdle ==
    /\ upc = [t \in Threads |-> "idle"]
    /\ usnap = [t \in Threads |-> EmptyMap]
    /\ ucalls = FALSE

OtherIdle == ScraperIdle /\ ThreadsIdle /\ CacheThreadsIdle

Init ==
    /\ ApiIdle
    /\ CacheIdle
    /\ ValidatorIdle
    /\ OtherIdle
    /\ cache_file = MissingFile
    /\ cwritable = TRUE

\* the cache starts over a store that is missing or corrupt, writable or not
InitCache ==
    /\ ApiIdle
    /\ CacheIdle
    /\ ValidatorIdle
    /\ OtherIdle
    /\ cache_file \in {MissingFile, CorruptFile}
    /\ cwritable \in BOOLEAN

NextLimiter ==
    \/ \E mr \in -1..MaxParam, tw \in -1..MaxParam : NewLimiter(mr, tw)
    \/ CallWaitIfNeeded
    \/ Tick

SpecLimiter == Init /\ [][NextLimiter]_vars

Next ==
    \/ \E ok \in BOOLEAN : NewClient(ok)
    \/ StartFetch
    \/ SendSearch
    \/ \E a \in Answers(page) : SearchOk(a)
    \/ \E a \in Answers(page) : SearchFails(a)

Spec == Init /\ [][Next]_vars

NextCache ==
    \/ \E days \in 1..MaxDays : NewCache(days)
    \/ \E k \in Keys : GetCompanyInfo(k)
    \/ \E k \in Keys, p \in Payloads : UpdateCompanyInfo(k, p)
    \/ CleanupExpired
    \/ CacheTick

SpecCache == InitCache /\ [][NextCache]_vars

NextValidator ==
    \/ \E batch \in Batches : Validate(batch)
    \/ Revalidate

SpecValidator == Init /\ [][NextValidator]_vars

NextThreads ==
    \/ \E mr \in 1..MaxParam, tw \in 1..MaxParam : NewLimiter(mr, tw)
    \/ \E t \in Threads : ReadClock(t)
    \/ \E t \in Threads : PruneTest(t)
    \/ \E t \in Threads : PopLeft(t)
    \/ \E t \in Threads : CountCheck(t)
    \/ \E t \in Threads : Wake(t)
    \/ \E t \in Threads : AppendStamp(t)
    \/ ThreadTick

SpecThreads == Init /\ [][NextThreads]_vars

NextCacheThreads ==
    \/ \E days \in 1..MaxDays : cobj = "none" /\ NewCache(days)
    \/ \E t \in Threads, k \in Keys, p \in Payloads : ThreadUpdate(t, k, p)
    \/ \E t \in Threads : ThreadCleanup(t)
    \/ \E t \in Threads : ThreadSnapshot(t)
    \/ \E t \in Threads : ThreadFileWrite(t)
    \/ CacheThreadTick

SpecCacheThreads == Init /\ [][NextCacheThreads]_vars

NextScraper ==
    \/ NewApp
    \/ \E max_pages \in 1..MaxPagesArg : StartScrape(max_pages)
    \/ \E content \in PageContents : ScrapePage(content)

SpecScraper == Init /\ [][NextScraper]_vars

----------------------------------------------------------------------------
(* Observations used by the properties *)

\* number of admissions with a time in the interval (lo, hi]
AdmittedIn(lo, hi) ==
    Cardinality({i \in 1..Len(admitted) : lo < admitted[i] /\ admitted[i] <= hi})

\* number of failed requests among the first k answers of the run
RECURSIVE FailuresUpTo(_)
FailuresUpTo(k) ==
    IF k = 0 THEN 0
    ELSE FailuresUpTo(k - 1) + (IF IsRequestException(resplog[k]) THEN 1 ELSE 0)

\* number of failed requests at the end of the answers seen so far; they are
\* requests for one page, the page index moving only on a success
RECURSIVE TrailingFailures(_)
TrailingFailures(k) ==
    IF k = 0 \/ ~IsRequestException(resplog[k]) THEN 0
    ELSE 1 + TrailingFailures(k - 1)

\* every answer received has been handled
Settled == pc # "inflight"

\* no request of the run was answered with a 4xx error
NoClientError == \A k \in 1..Len(resplog) : resplog[k].kind # "4xx"

\* the records of the successful answers among the first k, in arrival order,
\* each taken from the page its request named
RECURSIVE AnsweredRecords(_)
AnsweredRecords(k) ==
    IF k = 0 THEN <<>>
    ELSE AnsweredRecords(k - 1) \o
         (IF resplog[k].kind = "ok"
          THEN [i \in 1..resplog[k].n |->
                   [url |-> <<reqlog[k], i>>,
                    post_date |-> PostedAt(resplog[k].dates, i)]]
          ELSE <<>>)

\* the successful answers of the run, as <<page requested, size>>
OkAnswers ==
    LET idx == SelectSeq([i \in 1..Len(resplog) |-> i],
                         LAMBDA i : resplog[i].kind = "ok")
    IN [j \in 1..Len(idx) |-> <<reqlog[idx[j]], resplog[idx[j]].n>>]

----------------------------------------------------------------------------
(* C1 - RateLimiter, one caller: with max_requests >= 1 and time_window >= 1,
   no interval of time_window seconds (taken half-open, (t - time_window, t])
   holds more than max_requests admissions. *)
C1_WindowBudget ==
    (limiter # "none" /\ max_requests >= 1 /\ time_window >= 1)
        => \A i \in 1..Len(admitted) :
               AdmittedIn(admitted[i] - time_window, admitted[i]) <= max_requests

(* C2 as stated - once max_retries consecutive requests for a page have
   failed, the run has been aborted with the error and nothing more is sent. *)
C2_AbortAfterMaxRetriesFailures ==
    (Settled /\ TrailingFailures(Len(resplog)) >= max_retries)
        => (pc = "raised" /\ Len(reqlog) = Len(resplog))

(* C2 amended - once max_retries + 1 consecutive requests for a page have
   failed, the run has been aborted with the error and nothing more is sent;
   an abort on a failed request comes at the (max_retries + 1)-th failed
   request of the run and not before. *)
C2_AbortAfterMaxRetriesPlusOne ==
    /\ (Settled /\ TrailingFailures(Len(resplog)) >= max_retries + 1)
           => (pc = "raised" /\ Len(reqlog) = Len(resplog))
    /\ (pc = "raised" /\ TrailingFailures(Len(resplog)) > 0)
           => FailuresUpTo(Len(resplog)) = max_retries + 1

C2_Witness ==
    /\ pc = "raised"
    /\ TrailingFailures(Len(resplog)) = max_retries + 1

(* C3 - a page whose first two requests fail with a retryable (5xx) error, in
   a run with no 4xx answer:
   the run is not aborted by them, the sleeps after them are retry_delay and
   2 * retry_delay, and when the third request succeeds it is a request for
   the same page, the third one made for it. *)
C3_FailFailSuccess ==
    \A i \in 1..Len(resplog) :
        ( /\ NoClientError
          /\ i + 1 <= Len(resplog)
          /\ (i = 1 \/ reqlog[i - 1] # reqlog[i])
          /\ resplog[i].kind = "5xx"
          /\ resplog[i + 1].kind = "5xx"
          /\ (Settled \/ Len(resplog) > i + 1) )
        => /\ pc # "raised" \/ Len(resplog) > i + 1
           /\ Len(sleeps) >= FailuresUpTo(i + 1)
           /\ sleeps[FailuresUpTo(i)] = retry_delay * 1
           /\ sleeps[FailuresUpTo(i + 1)] = retry_delay * 2
           /\ (Len(resplog) >= i + 2 /\ resplog[i + 2].kind = "ok")
                  => (reqlog[i + 2] = reqlog[i] /\ reqlog[i + 1] = reqlog[i])

(* C4 - when the run is aborted on an exhausted retry budget after records
   were accumulated, those records have been handed to the caller. *)
C4_PartialResultsDelivered ==
    (pc = "raised" /\ NoClientError /\ retry_count > max_retries /\ all_jobs # <<>>)
        => (result.returned /\ result.df \in {all_jobs, FilterJobs(all_jobs)})

(* C5 - a request answered with a 4xx error is the last request of the run:
   the error is propagated at once, with no backoff sleep and no retry. *)
C5_ClientErrorIsFatal ==
    \A i \in 1..Len(resplog) :
        resplog[i].kind = "4xx"
            => /\ pc = "raised"
               /\ Len(reqlog) = i
               /\ Len(sleeps) = FailuresUpTo(i - 1)

(* C6 - under every interleaving of successes and failures the accumulated
   records are the records of pages 0, 1, ..., k in index order, each once:
   a failed attempt appends nothing and is followed by a request for the same
   page, a full page by a request for the next one. *)
C6_PagesInOrderOnce ==
    /\ all_jobs = AnsweredRecords(Len(resplog))
    /\ \A j \in 1..Len(OkAnswers) : OkAnswers[j][1] = j - 1
    /\ \A i \in 1..Len(reqlog) - 1 :
           reqlog[i + 1] = (IF IsRequestException(resplog[i])
                            THEN reqlog[i] ELSE reqlog[i] + 1)
    /\ Len(reqlog) > 0 => reqlog[1] = 0
    /\ Settled => page = Len(SelectSeq(OkAnswers, LAMBDA a : a[2] = limit))

C6_Witness ==
    /\ pc = "returned"
    /\ Len(OkAnswers) >= 2
    /\ \E i \in 1..Len(resplog) - 1 :
           IsRequestException(resplog[i]) /\ reqlog[i] = 1

(* C7 - a successful answer with zero records is the last request of the run
   and the run returns normally; when it is the answer for page 0 the caller
   gets an empty result set. *)
C7_EmptyPageEndsRun ==
    \A i \in 1..Len(resplog) :
        (resplog[i].kind = "ok" /\ resplog[i].n = 0)
            => /\ Len(reqlog) = i
               /\ pc = "returned"
               /\ reqlog[i] = 0 => result = Returned(<<>>)

\* the upstream answered page 0 with a full page and page 1 with a short one
TwoPageUpstream == OkAnswers = << <<0, limit>>, <<1, ShortPage>> >>

(* C8 as stated - full page 0 and short page 1: the run returns a result set
   holding every record of both pages, after two page fetches and no request
   for page 2. *)
C8_TwoPagesAllRecords ==
    TwoPageUpstream
        => /\ pc = "returned"
           /\ result.df = AnsweredRecords(Len(resplog))
           /\ Len(result.df) = limit + ShortPage
           /\ \A i \in 1..Len(reqlog) : reqlog[i] < 2

(* C8 amended - full page 0 and short page 1: the run returns a result set
   holding, in order, every record of both pages whose post_date is known and
   not before 2025-01-01 (all of them when every record is that recent),
   after two page fetches and no request for page 2. *)
C8_TwoPagesRecentRecords ==
    TwoPageUpstream
        => /\ pc = "returned"
           /\ result.df = SelectSeq(AnsweredRecords(Len(resplog)),
                              LAMBDA r : r.post_date # Null /\ r.post_date[1] >= 0)
           /\ (\A i \in 1..Len(resplog) : resplog[i].dates # "mixed")
                  => Len(result.df) = limit + ShortPage
           /\ Len(reqlog) = Len(resplog)
           /\ \A i \in 1..Len(reqlog) : reqlog[i] < 2

C8_Witness ==
    /\ TwoPageUpstream
    /\ pc = "returned"
    /\ Len(result.df) < limit + ShortPage
    /\ Len(result.df) > 0

(* C9 - every HTTP request sent, the constructor's connection test included,
   follows a wait_if_needed call of its own: the requests sent never outnumber
   the sends the limiter has recorded. *)
C9_EverySendRecorded == sent <= recorded

(* C10 - no RateLimiter exists with max_requests <= 0 or time_window <= 0,
   and none with such a parameter has admitted a request. *)
C10_NonPositiveRejected ==
    /\ limiter # "none" => (max_requests > 0 /\ time_window > 0)
    /\ admitted # <<>> => (max_requests > 0 /\ time_window > 0)

----------------------------------------------------------------------------
(* Observations of the CompanyCache *)

\* the step is a call of the named CompanyCache operation
CacheCall(op) == clast'.seq # clast.seq /\ clast'.op = op

\* the age of the entry of key k at the current clock
Age(k) == cnow - cache[k].timestamp

(* C11 - constructing the cache over a missing or a corrupt backing store
   raises nothing: the constructor completes and the cache is empty. *)
C11_LoadFailureGivesEmptyCache ==
    (clast.op = "new" /\ cache_file.state \in {"missing", "corrupt"})
        => (cobj = "ready" /\ DOMAIN cache = {} /\ clast.ret = FALSE)

(* C12 - get_company_info(key) returns a value iff the key has an entry with
   now - written_at < ttl (an entry aged exactly ttl is absent), and it
   changes neither the in-memory map nor the backing store. *)
C12_GetValidOnly ==
    [][CacheCall("get")
          => /\ cache' = cache
             /\ cache_file' = cache_file
             /\ ~clast'.wrote
             /\ (clast'.ret # Absent)
                    <=> (clast'.key \in DOMAIN cache
                           /\ Age(clast'.key) < cache_duration)
             /\ clast'.ret # Absent => clast'.ret = cache[clast'.key]]_vars

C12_Witness ==
    /\ clast.op = "get"
    /\ clast.ret = Absent
    /\ clast.key \in DOMAIN cache
    /\ Age(clast.key) = cache_duration

(* C13 - update_company_info(k, p) followed at once by get_company_info(k)
   returns p itself, with no field added, removed or overwritten; a get of an
   entry older than ttl returns absent, and a cleanup_expired that follows it
   removes the entry and, the entry being the only one, returns 1. *)
C13_UpdateGetRoundTrip ==
    [][/\ (CacheCall("get") /\ clast.op = "update" /\ clast'.key = clast.key
              /\ Age(clast.key) = 0)
          => clast'.ret = clast.arg
       /\ (CacheCall("get") /\ clast'.key \in DOMAIN cache
              /\ Age(clast'.key) > cache_duration)
          => clast'.ret = Absent
       /\ (CacheCall("cleanup") /\ clast.op = "get" /\ clast.ret = Absent
              /\ DOMAIN cache = {clast.key})
          => (DOMAIN cache' = {} /\ clast'.ret = 1)]_vars

(* C14 - on a writable store, a cache freshly constructed from the backing
   store holds exactly the in-memory map, timestamps included; an update
   overwrites the entry of its key with the payload's fields and
   written_at = now, leaves the other entries alone, and has written the full
   cache to the store when it returns. *)
C14_StoreMirrorsMemory ==
    [][(cobj' = "ready" /\ cwritable)
          => /\ LoadCache(cache_file', FALSE) = [raised |-> FALSE, cache |-> cache']
             /\ CacheCall("update")
                  => /\ DOMAIN cache' = DOMAIN cache \cup {clast'.key}
                     /\ \A k \in DOMAIN cache \ {clast'.key} : cache'[k] = cache[k]
                     /\ cache'[clast'.key].timestamp = cnow
                     /\ \A f \in DOMAIN clast'.arg \ {"timestamp"} :
                            cache'[clast'.key][f] = clast'.arg[f]
                     /\ clast'.wrote
                     /\ cache_file'.state = "ok"
                     /\ DOMAIN cache_file'.data = DOMAIN cache']_vars

C14_Witness ==
    /\ cobj = "ready"
    /\ cwritable
    /\ clast.op = "update"
    /\ cache_file.state = "ok"
    /\ DOMAIN cache = Keys
    /\ \E k \in Keys : cache[k].timestamp % TicksPerDay # 0

(* C15 - cleanup_expired removes exactly the entries of age >= ttl and leaves
   the others as they were; it returns the number removed; on a writable
   store it writes the backing store iff it removed an entry. *)
C15_CleanupExact ==
    [][CacheCall("cleanup")
          => LET kept == {k \in DOMAIN cache : cnow - cache[k].timestamp < cache_duration}
             IN /\ DOMAIN cache' = kept
                /\ \A k \in kept : cache'[k] = cache[k]
                /\ clast'.ret = Cardinality(DOMAIN cache \ kept)
                /\ cwritable => (clast'.wrote <=> kept # DOMAIN cache)
                /\ kept = DOMAIN cache => cache_file' = cache_file]_vars

C15_Witness ==
    /\ clast.op = "cleanup"
    /\ clast.ret = 1
    /\ clast.wrote
    /\ Cardinality(DOMAIN cache) = 1
    /\ \E k \in DOMAIN cache : Age(k) = cache_duration - 1

----------------------------------------------------------------------------
(* Observations of the DataValidator *)

DateColumns == {"date_found", "post_date"}
IsDateOrNull(cell) == cell.kind \in {"date", "null"}

\* every cell of the date columns of df is a datetime or NaT
DatesRepaired(df) ==
    \A i \in 1..Len(df.rows) : \A c \in DateColumns \cap df.cols :
        IsDateOrNull(df.rows[i][c])

\* every url string of df begins with a scheme
UrlsRepaired(df) ==
    \A i \in 1..Len(df.rows) :
        df.rows[i]["url"].kind = "str"
            => /\ df.rows[i]["url"].text # <<>>
               /\ df.rows[i]["url"].text[1] \in {"https://", "http://"}

(* C16 - validate_and_repair_data never raises; when a repair step throws,
   the call returns False with the batch carrying the repairs of the steps
   completed before: the required columns added, the dates repaired, and,
   when the text cleaning threw, the urls repaired. *)
C16_NeverRaisesKeepsRepairs ==
    \A k \in DOMAIN vruns :
        /\ ~vruns[k].raised
        /\ vruns[k].threw # "none"
              => /\ ~vruns[k].ok
                 /\ REQUIRED_COLUMNS \subseteq vruns[k].df.cols
                 /\ Len(vruns[k].df.rows) = Len(vin.rows)
                 /\ DatesRepaired(vruns[k].df)
                 /\ vruns[k].threw = "clean_text_fields" => UrlsRepaired(vruns[k].df)

C16_Witness ==
    /\ vruns # <<>>
    /\ vruns[1].threw = "clean_text_fields"
    /\ ~vruns[1].ok
    /\ "location" \notin vin.cols
    /\ vin.rows # <<>>
    /\ vin.rows[1]["post_date"].kind = "str"
    /\ vruns[1].df.rows[1]["post_date"].kind = "date"
    /\ vruns[1].df.rows[1]["location"] = NullCell

(* C17 - when no step throws, the boolean validate_and_repair_data returns is
   True iff no column of REQUIRED_COLUMNS was missing from the input. *)
C17_TrueIffNoColumnMissing ==
    (vruns # <<>> /\ vruns[1].threw = "none")
        => (vruns[1].ok <=> REQUIRED_COLUMNS \subseteq vin.cols)

\* the cascade of parse_date_with_formats on a raw value
CascadeOnRaw(raw) == IF raw.kind = "str" THEN ParseDateWithFormats(raw) ELSE raw

(* C18 - date repair gives every cell of post_date and date_found the value
   of the cascade on the raw value of the cell: the first strict format that
   parses it, else the permissive parser's date, else the null marker. *)
C18_DateCascadeOnRawValue ==
    vruns # <<>>
        => \A i \in 1..Len(vin.rows) : \A c \in DateColumns \cap vin.cols :
               vruns[1].df.rows[i][c] = CascadeOnRaw(vin.rows[i][c])

(* C19 - after validate_and_repair_data returns True, every post_date and
   date_found cell of the returned batch is a date or the null marker, never
   a raw string. *)
C19_NoRawStringInDateColumns ==
    \A k \in DOMAIN vruns :
        vruns[k].ok
            => \A i \in 1..Len(vruns[k].df.rows) : \A c \in DateColumns :
                   vruns[k].df.rows[i][c].kind \in {"date", "null"}

C19_Witness ==
    /\ vruns # <<>>
    /\ vruns[1].ok
    /\ "post_date" \in vin.cols
    /\ vin.rows # <<>>
    /\ vin.rows[1]["post_date"] = DateStr("words", 0, 0)
    /\ vruns[1].df.rows[1]["post_date"] = NullCell

(* C20 - validating the batch a successful validation returned returns True
   again with a batch identical in every cell. *)
C20_SecondValidationChangesNothing ==
    (Len(vruns) = 2 /\ vruns[1].ok)
        => (vruns[2].ok /\ vruns[2].df = vruns[1].df)

\* the url that repair owes a raw url string: trimmed, with "https://" in
\* front unless the trimmed value begins with a scheme
ExpectedUrl(raw) ==
    LET trimmed == Strip(raw.text)
    IN IF trimmed # <<>> /\ trimmed[1] \in {"https://", "http://"}
       THEN Str(trimmed)
       ELSE Str(<<"https://">> \o trimmed)

(* C21 - url repair maps every url string to its trimmed value, with
   "https://" prepended exactly when the trimmed value does not begin with
   "http://" or "https://"; afterwards every non-null url begins with one of
   the two; a url that fails the well-formed pattern is counted in the
   warning and its row stays. *)
C21_UrlRepair ==
    (vruns # <<>> /\ vruns[1].threw # "validate_urls" /\ "url" \in vin.cols)
        => /\ Len(vruns[1].df.rows) = Len(vin.rows)
           /\ \A i \in 1..Len(vin.rows) :
                 /\ vin.rows[i]["url"].kind = "str"
                       => vruns[1].df.rows[i]["url"] = ExpectedUrl(vin.rows[i]["url"])
                 /\ vruns[1].df.rows[i]["url"].kind \in {"str", "null"}
           /\ UrlsRepaired(vruns[1].df)
           /\ vwarned[1] = Cardinality({i \in 1..Len(vin.rows) :
                                           ~MatchesUrlPattern(vruns[1].df.rows[i]["url"])})

C21_Witness ==
    /\ vruns # <<>>
    /\ vruns[1].ok
    /\ "url" \in vin.cols
    /\ Len(vin.rows) = 2
    /\ vin.rows[1]["url"] = Str(<<" ", "x">>)
    /\ vruns[1].df.rows[1]["url"] = Str(<<"https://", "x">>)
    /\ vin.rows[2]["url"] = Str(<<"https://", "x">>)
    /\ vruns[1].df.rows[2]["url"] = vin.rows[2]["url"]
    /\ vwarned[1] = 2

\* the columns no repair step assigns
UntouchedColumns == {"platform", "location"}

\* after holds the rows of before, one for one and in the same order
SameRows(before, after) ==
    /\ Len(after.rows) = Len(before.rows)
    /\ \A i \in 1..Len(before.rows) :
          /\ \A c \in UntouchedColumns \cap before.cols :
                after.rows[i][c] = before.rows[i][c]
          /\ \A c \in DateColumns \cap before.cols :
                before.rows[i][c].kind = "date" => after.rows[i][c] = before.rows[i][c]

(* C22 - validate_and_repair_data never drops, adds or reorders rows: the
   returned batch has the rows of the input, one for one and in the same
   order, whether or not a step threw. *)
C22_RowsKept ==
    /\ vruns # <<>> => SameRows(vin, vruns[1].df)
    /\ Len(vruns) = 2 => SameRows(vruns[1].df, vruns[2].df)

C22_Witness ==
    /\ vruns # <<>>
    /\ vruns[1].ok
    /\ vin.cols = REQUIRED_COLUMNS
    /\ Len(vin.rows) = 2
    /\ vin.rows[1]["post_date"] = DateStr("words", 0, 0)
    /\ vin.rows[2] = NullRow
    /\ Len(vruns[1].df.rows) = 2
    /\ vruns[1].df.rows[1]["platform"] = Str(<<"a">>)
    /\ vruns[1].df.rows[2]["platform"] = NullCell
    /\ vruns[1].df.rows[2]["url"] = NullCell
    /\ vwarned[1] = 2

\* no whitespace at either end, no two whitespace characters in a row, and
\* only word, whitespace and hyphen characters
IsCleanText(text) ==
    /\ text # <<>> => (~IsSpace(text[1]) /\ ~IsSpace(text[Len(text)]))
    /\ \A j \in 1..Len(text) - 1 : ~(IsSpace(text[j]) /\ IsSpace(text[j + 1]))
    /\ \A j \in 1..Len(text) : text[j] \in {"a", " ", "-"}

(* C28 - after clean_text_fields every non-null company and title value has
   no leading or trailing whitespace, no run of two or more whitespace
   characters, and only alphanumeric, whitespace and hyphen characters. *)
C28_TextFieldsClean ==
    (vruns # <<>> /\ vruns[1].ok)
        => \A i \in 1..Len(vruns[1].df.rows) : \A c \in {"company", "title"} :
               vruns[1].df.rows[i][c].kind = "str"
                   => IsCleanText(vruns[1].df.rows[i][c].text)

----------------------------------------------------------------------------
(* Observations of the retry loop and of the limiter's sleep *)

\* number of failed requests for page p among the first k answers of the run
FailuresOnPage(p, k) ==
    Cardinality({j \in 1..k : reqlog[j] = p /\ IsRequestException(resplog[j])})

\* the index, among the answers, of the j-th failed request of the run
NthFailure(j) ==
    CHOOSE k \in 1..Len(resplog) :
        IsRequestException(resplog[k]) /\ FailuresUpTo(k) = j

(* C26 - the retry budget applies to each page separately, in a run with no
   4xx answer: the run is aborted on a failed request only when the page
   asked for has failed more than max_retries times, and the sleep after the
   k-th failure of a page is retry_delay * k. *)
C26_RetryBudgetPerPage ==
    NoClientError
        => /\ (pc = "raised" /\ TrailingFailures(Len(resplog)) > 0)
                 => FailuresOnPage(page, Len(resplog)) > max_retries
           /\ \A j \in 1..Len(sleeps) :
                 sleeps[j] = retry_delay * FailuresOnPage(reqlog[NthFailure(j)], NthFailure(j))

(* C27 - the timestamp wait_if_needed appends to the window is the clock time
   at which the call is admitted: the time after waking when it slept, the
   time of the call when it did not. *)
C27_StampIsAdmissionTime ==
    (limiter = "ready" /\ admitted # <<>>)
        => requests[Len(requests)] = admitted[Len(admitted)]

\* the step is a wait_if_needed call that returned
LimiterCall == recorded' = recorded + 1

(* C30 - a wait_if_needed call of the single caller ends; it sleeps at most
   once, and a sleep lasts a positive time of at most time_window seconds,
   equal to (oldest retained timestamp + time_window) - now. *)
C30_SleepBounded ==
    [][LimiterCall
          => /\ now' >= now
             /\ now' > now
                   => /\ now' - now <= time_window
                      /\ now' - now = requests'[1] + time_window - now
                      /\ Len(requests') > max_requests
             /\ admitted' = Append(admitted, now')]_vars

C30_Witness ==
    /\ limiter = "ready"
    /\ time_window = 2
    /\ Len(admitted) >= 3
    /\ admitted[Len(admitted)] - requests[Len(requests)] = 1
    /\ requests[1] < requests[Len(requests) - 1]

----------------------------------------------------------------------------
(* Observations of the JobScraperApp *)

(* C23 - normalizing a page: every job card of a scraped page, however
   partial or malformed, yields exactly one record in the batch, in the order
   of the cards, with the unknown marker in the fields the card lacks; no
   card is left out. *)
C23_OneRecordPerItem ==
    [][spc = "loop"
          => /\ Len(sjobs') = Len(sjobs) + Len(scards')
             /\ \A i \in 1..Len(scards') :
                   /\ sjobs'[Len(sjobs) + i].url = <<sruns, spage, i>>
                   /\ scards'[i] = "nodate" => sjobs'[Len(sjobs) + i].post_date = Null
                   /\ scards'[i] = "partial"
                         => sjobs'[Len(sjobs) + i].title = "Unknown Title"]_vars

(* C29 - every scrape_jobs call returns a fresh batch: the records of the
   batch of the r-th call on an object are records fetched during the r-th
   call, and a batch returned earlier is not altered by a later call. *)
C29_FreshBatchPerRun ==
    [][/\ \A r \in DOMAIN sresults' : \A i \in 1..Len(sresults'[r]) :
              sresults'[r][i].url[1] = r
       /\ \A r \in DOMAIN sresults : sresults'[r] = sresults[r]]_vars

----------------------------------------------------------------------------
(* Observations of the threads sharing a RateLimiter *)

\* how many times v occurs in the sequence q
Occurrences(q, v) == Cardinality({i \in 1..Len(q) : q[i] = v})

\* no thread left wait_if_needed by an exception
NoThreadRaised == \A t \in Threads : tpc[t] # "raised"

\* no interval of time_window seconds holds more than max_requests admissions
ThreadsWithinBudget ==
    \A i \in 1..Len(admitted) :
        AdmittedIn(admitted[i] - time_window, admitted[i]) <= max_requests

\* every timestamp appended that no pruning may remove yet is in the deque
NoStampLost ==
    \A i \in 1..Len(tstamps) :
        tstamps[i] >= now - time_window
            => Occurrences(requests, tstamps[i]) = Occurrences(tstamps, tstamps[i])

(* C24 - two threads calling wait_if_needed on one RateLimiter: under every
   interleaving no interval of time_window seconds holds more than
   max_requests admissions, every admitted call's timestamp is in the window
   for as long as it counts, and no call fails. *)
C24_ThreadsShareBudget ==
    limiter = "ready" => (ThreadsWithinBudget /\ NoStampLost /\ NoThreadRaised)

----------------------------------------------------------------------------
(* Observations of the threads sharing a CompanyCache *)

(* C25 - two threads calling update_company_info / cleanup_expired on one
   cache over a writable store: under every interleaving, once all the calls
   have returned the backing store holds exactly the in-memory cache. *)
C25_StoreMirrorsMemoryAfterCalls ==
    (cobj = "ready" /\ cwritable /\ ucalls /\ \A t \in Threads : upc[t] = "idle")
        => LoadCache(cache_file, FALSE) = [raised |-> FALSE, cache |-> cache]

====
